---- MODULE Spec2Model ----
(***************************************************************************)
(* Model of post_verse.py: the daily verse bot.  One run of main() is      *)
(* reset_if_new_year -> load_verses -> select_valid_verse ->               *)
(* create_verse_image -> post_to_twitter -> image cleanup ->               *)
(* save_posted_verse, inside one try block with two except clauses.        *)
(*                                                                         *)
(* Text is modelled as sequences of one-character strings so that          *)
(* formatting ("{text} - {reference}", "{reference}|{timestamp}\n") and    *)
(* parsing (strip, split('|'), split('-')) are computed, not assumed.      *)
(***************************************************************************)
EXTENDS Integers, Sequences, FiniteSets, TLC

\* ------------------------------------------------------------------ bounds
MaxRuns == 2          \* invocations of main() explored
YearSpan == 1         \* calendar years after FirstYear the clock may reach
FirstYear == 2024     \* year of the first run (a sample wall-clock value)

\* -------------------------------------------------------- program constants
TweetLimit == 280     \* len(tweet) <= 280
MaxAttempts == 50     \* max_attempts=50

\* ------------------------------------------------------------ text helpers
Chars(c, n) == [i \in 1..n |-> c]

WS == {" ", "\n", "\t"}

\* index of the first occurrence of c in s, 0 when there is none
IndexOf(s, c) ==
    IF \E i \in 1..Len(s) : s[i] = c
    THEN CHOOSE i \in 1..Len(s) : s[i] = c /\ \A j \in 1..(i-1) : s[j] # c
    ELSE 0

\* c in s
Contains(s, c) == IndexOf(s, c) # 0

\* s.split(c)[0]
Field0(s, c) == IF Contains(s, c) THEN SubSeq(s, 1, IndexOf(s, c) - 1) ELSE s

\* c.join(s.split(c)[1:]), only used when c is in s
AfterFirst(s, c) == SubSeq(s, IndexOf(s, c) + 1, Len(s))

\* s.split(c)[1], only used when c is in s
Field1(s, c) == Field0(AfterFirst(s, c), c)

\* str.strip()
RECURSIVE LStrip(_)
LStrip(s) == IF s # <<>> /\ Head(s) \in WS THEN LStrip(Tail(s)) ELSE s

RECURSIVE RStrip(_)
RStrip(s) ==
    IF s # <<>> /\ s[Len(s)] \in WS THEN RStrip(SubSeq(s, 1, Len(s) - 1)) ELSE s

Strip(s) == RStrip(LStrip(s))

\* f.readline(): the first line with its terminator, '' at end of file
ReadLine(content) ==
    IF Contains(content, "\n") THEN SubSeq(content, 1, IndexOf(content, "\n"))
    ELSE content

\* iteration over a text file: the lines, terminators kept
RECURSIVE FileLines(_)
FileLines(content) ==
    IF content = <<>> THEN <<>>
    ELSE <<ReadLine(content)>>
         \o FileLines(SubSeq(content, Len(ReadLine(content)) + 1, Len(content)))

\* decimal digits of n, zero padded to width w (strftime %Y, %m, %d)
Digit(d) == CASE d = 0 -> "0" [] d = 1 -> "1" [] d = 2 -> "2" [] d = 3 -> "3"
              [] d = 4 -> "4" [] d = 5 -> "5" [] d = 6 -> "6" [] d = 7 -> "7"
              [] d = 8 -> "8" [] d = 9 -> "9"

RECURSIVE Digits(_, _)
Digits(n, w) == IF w = 0 THEN <<>> ELSE Digits(n \div 10, w - 1) \o <<Digit(n % 10)>>

\* datetime.strftime('%Y')
StrfYear(d) == Digits(d.year, 4)

\* datetime.strftime('%Y-%m-%d')
StrfDate(d) == Digits(d.year, 4) \o <<"-">> \o Digits(d.month, 2) \o <<"-">> \o Digits(d.day, 2)

\* ---------------------------------------------------------------- files
\* A file name is <<stem, year part, extension>>.
PostedFile == <<"posted_verses", <<>>, ".txt">>

\* f"posted_verses_{last_year}.txt"
BackupFile(last_year) == <<"posted_verses_", last_year, ".txt">>

Exists(files, name) == name \in DOMAIN files

\* os.rename(src, dst) when it succeeds: dst holds src's content, src is gone
Rename(files, src, dst) ==
    [n \in (DOMAIN files \ {src}) \cup {dst} |-> IF n = dst THEN files[src] ELSE files[n]]

\* open(name, 'a').write(s): creates the file when missing, appends otherwise
AppendTo(files, name, s) ==
    [n \in DOMAIN files \cup {name} |->
        IF n = name THEN (IF Exists(files, name) THEN files[name] ELSE <<>>) \o s
        ELSE files[n]]

\* ------------------------------------------------------------ verse store
Verse(ref, text) == [reference |-> ref, text |-> text]

VShort1 == Verse(<<"J", "1">>, Chars("a", 5))
VShort2 == Verse(<<"P", "2">>, Chars("b", 7))
VExact == Verse(<<"R", "3">>, Chars("c", TweetLimit - 5))
VLong == Verse(<<"L", "4">>, Chars("d", TweetLimit - 4))

\* the contents bible_verses.csv may have (csv.DictReader rows, in file order)
Stores == { <<>>, <<VShort1, VShort2>>, <<VShort1, VExact, VLong>>, <<VLong>> }

\* bible_verses.csv: missing, or present with its rows
CsvFiles == {[exists |-> FALSE, rows |-> <<>>]} \cup {[exists |-> TRUE, rows |-> r] : r \in Stores}

\* the value of a local that is not bound yet
NoVerse == Verse(<<>>, <<>>)

VARIABLES
    now,           \* datetime.now(): [year, month, day]
    os_name,       \* "posix" or "nt": decides os.rename onto an existing file
    fs,            \* the ledger and its backups: file name -> content
    csv_file,      \* bible_verses.csv: [exists, rows]
    image_exists,  \* verse_image.png exists
    runs,          \* invocations of main() so far
    pc,            \* position in main()
    verses,        \* main: verses
    available,     \* select_valid_verse: available_verses
    attempts,      \* select_valid_verse: iterations of the for loop begun
    drawn,         \* indices drawn so far in this call that were rejected
    verse,         \* the verse drawn last / returned
    tweet,         \* format_tweet(verse)
    err,           \* the exception in flight or handled: "none" or its class
    failed_step,   \* the step that raised it
    reported,      \* an "Error: ..." line was printed
    published,     \* post_to_twitter returned in this run
    recorded,      \* save_posted_verse returned in this run
    pre_reset,     \* fs and clock when reset_if_new_year was entered
    post_reset     \* fs when reset_if_new_year was left (returned or raised)

vars == <<now, os_name, fs, csv_file, image_exists, runs, pc, verses, available,
          attempts, drawn, verse, tweet, err, failed_step, reported, published,
          recorded, pre_reset, post_reset>>

locals == <<verses, available, attempts, drawn, verse, tweet>>
outcome == <<err, failed_step, reported, published, recorded>>
snapshots == <<pre_reset, post_reset>>
world == <<now, os_name, fs, csv_file, image_exists>>

\* ------------------------------------------------------ ledger operations
\* load_posted_verses: the set of stripped non-blank lines of the ledger
load_posted_verses(files) ==
    IF ~Exists(files, PostedFile) THEN {}
    ELSE LET lines == FileLines(files[PostedFile])
         IN  { Strip(lines[i]) : i \in { k \in 1..Len(lines) : Strip(lines[k]) # <<>> } }

\* save_posted_verse: append "reference|YYYY-MM-DD\n"
save_posted_verse(files, reference, d) ==
    AppendTo(files, PostedFile, reference \o <<"|">> \o StrfDate(d) \o <<"\n">>)

\* os.rename(src, dst): POSIX replaces an existing dst silently, Windows raises
\* FileExistsError and leaves both files as they were
os_rename(files, src, dst, osn) ==
    IF Exists(files, dst) /\ osn = "nt"
    THEN [fs |-> files, raises |-> "FileExistsError"]
    ELSE [fs |-> Rename(files, src, dst), raises |-> "none"]

\* first_line.split('|')[1].split('-')[0]
LastYear(first_line) == Field0(Field1(first_line, "|"), "-")

\* reset_if_new_year with the backup named after the current year
reset_names_current_year(files, d, osn) ==
    IF ~Exists(files, PostedFile) THEN [fs |-> files, raises |-> "none"]
    ELSE LET first_line == Strip(ReadLine(files[PostedFile]))
         IN  IF Contains(first_line, "|") /\ LastYear(first_line) # StrfYear(d)
             THEN os_rename(files, PostedFile, BackupFile(StrfYear(d)), osn)
             ELSE [fs |-> files, raises |-> "none"]

\* reset_if_new_year
reset_if_new_year(files, d, osn) ==
    IF ~Exists(files, PostedFile) THEN [fs |-> files, raises |-> "none"]
    ELSE LET first_line == Strip(ReadLine(files[PostedFile]))
         IN  IF Contains(first_line, "|") /\ LastYear(first_line) # StrfYear(d)
             THEN os_rename(files, PostedFile, BackupFile(LastYear(first_line)), osn)
             ELSE [fs |-> files, raises |-> "none"]

\* ---------------------------------------------------------------- selector
\* format_tweet with the separator f'{text} {reference}'
format_tweet_no_dash(v) == v.text \o <<" ">> \o v.reference

\* format_tweet: f'{text} - {reference}'
format_tweet(v) == v.text \o <<" ", "-", " ">> \o v.reference

\* the length test off by one: len(tweet) <= 281
FitsOffByOne(t) == Len(t) <= TweetLimit + 1

\* len(tweet) <= 280
Fits(t) == Len(t) <= TweetLimit

\* [v for v in verses if v['reference'] not in posted]
NotPosted(vs, posted) ==
    LET keep == { i \in 1..Len(vs) : vs[i].reference \notin posted }
        F[i \in 0..Len(vs)] ==
            IF i = 0 THEN <<>>
            ELSE IF i \in keep THEN Append(F[i-1], vs[i]) ELSE F[i-1]
    IN  F[Len(vs)]

\* available_verses after the "if not available_verses" fallback
AvailableVerses(vs, posted) ==
    IF NotPosted(vs, posted) = <<>> THEN vs ELSE NotPosted(vs, posted)

\* weights that vanish after the first position: only it can be drawn
DrawableFirstOnly(av) == 1..Len(av) \cap {1}

\* random.choices(available_verses, weights): every weight 2.718 ** (-i / 200)
\* is positive, so every position can be drawn
Drawable(av) == 1..Len(av)

\* --------------------------------------------------------------- the clock
Date(y, m, d) == [year |-> y, month |-> m, day |-> d]

Years == FirstYear..(FirstYear + YearSpan)

\* a ledger written by two earlier runs of this year, and a backup left by an
\* earlier rollover
EarlierLedger ==
    VShort1.reference \o <<"|">> \o StrfDate(Date(FirstYear, 6, 1)) \o <<"\n">>
    \o VShort2.reference \o <<"|">> \o StrfDate(Date(FirstYear, 6, 2)) \o <<"\n">>
OldBackup == <<"O", "9", "|">> \o StrfDate(Date(FirstYear, 6, 1)) \o <<"\n">>

InitialFiles ==
    { [n \in {} |-> <<>>],
      [n \in {PostedFile} |-> <<>>],
      [n \in {PostedFile} |-> EarlierLedger],
      [n \in {BackupFile(Digits(FirstYear, 4))} |-> OldBackup] }

Init ==
    /\ now = Date(FirstYear, 12, 31)
    /\ os_name \in {"posix", "nt"}
    /\ fs \in InitialFiles
    /\ csv_file \in CsvFiles
    /\ image_exists = FALSE
    /\ runs = 0
    /\ pc = "idle"
    /\ verses = <<>>
    /\ available = <<>>
    /\ attempts = 0
    /\ drawn = {}
    /\ verse = NoVerse
    /\ tweet = <<>>
    /\ err = "none"
    /\ failed_step = "none"
    /\ reported = FALSE
    /\ published = FALSE
    /\ recorded = FALSE
    /\ pre_reset = [fs |-> fs, now |-> now]
    /\ post_reset = fs

\* the wall clock passes New Year, at any point of a run or between runs
Tick ==
    /\ now.year < FirstYear + YearSpan
    /\ now' = Date(now.year + 1, 1, 1)
    /\ UNCHANGED <<os_name, fs, csv_file, image_exists, runs, pc>>
    /\ UNCHANGED <<locals, outcome, snapshots>>

\* an exception leaves the try body for the except clauses
Raise(step, kind) ==
    /\ pc' = "except"
    /\ err' = kind
    /\ failed_step' = step
    /\ UNCHANGED <<reported, published, recorded>>

\* the scheduler invokes main()
StartRun ==
    /\ pc \in {"idle", "returned", "raised"}
    /\ runs < MaxRuns
    /\ runs' = runs + 1
    /\ pc' = "reset"
    /\ verses' = <<>>
    /\ available' = <<>>
    /\ attempts' = 0
    /\ drawn' = {}
    /\ verse' = NoVerse
    /\ tweet' = <<>>
    /\ err' = "none"
    /\ failed_step' = "none"
    /\ reported' = FALSE
    /\ published' = FALSE
    /\ recorded' = FALSE
    /\ UNCHANGED <<world, snapshots>>

\* main: reset_if_new_year()
ResetIfNewYear ==
    /\ pc = "reset"
    /\ LET r == reset_if_new_year(fs, now, os_name)
       IN  /\ fs' = r.fs
           /\ pre_reset' = [fs |-> fs, now |-> now]
           /\ post_reset' = r.fs
           /\ IF r.raises = "none"
              THEN pc' = "load" /\ UNCHANGED outcome
              ELSE Raise("reset", r.raises)
    /\ UNCHANGED <<now, os_name, csv_file, image_exists, runs, locals>>

\* main: verses = load_verses(); open() raises when the file is missing
LoadVerses ==
    /\ pc = "load"
    /\ IF ~csv_file.exists
       THEN Raise("load", "FileNotFoundError") /\ UNCHANGED verses
       ELSE pc' = "select" /\ verses' = csv_file.rows /\ UNCHANGED outcome
    /\ UNCHANGED <<world, runs, available, attempts, drawn, verse, tweet, snapshots>>

\* select_valid_verse: posted, available_verses and weights are set up
SelectBegin ==
    /\ pc = "select"
    /\ available' = AvailableVerses(verses, load_posted_verses(fs))
    /\ attempts' = 0
    /\ drawn' = {}
    /\ pc' = "draw"
    /\ UNCHANGED <<world, runs, verses, verse, tweet, outcome, snapshots>>

\* one iteration of the for loop whose tweet fits: return verse, tweet
DrawFits ==
    /\ pc = "draw"
    /\ attempts < MaxAttempts
    /\ \E i \in Drawable(available) :
        /\ Fits(format_tweet(available[i]))
        /\ verse' = available[i]
        /\ tweet' = format_tweet(available[i])
    /\ attempts' = attempts + 1
    /\ pc' = "selected"
    /\ UNCHANGED <<world, runs, verses, available, drawn, outcome, snapshots>>

\* main: verse, tweet_text = select_valid_verse(verses); the callee's frame
\* (posted, available_verses, weights, the loop counter) is gone
SelectReturn ==
    /\ pc = "selected"
    /\ available' = <<>>
    /\ attempts' = 0
    /\ drawn' = {}
    /\ pc' = "image"
    /\ UNCHANGED <<world, runs, verses, verse, tweet, outcome, snapshots>>

\* one iteration of the for loop whose tweet is too long: next iteration
DrawTooLong ==
    /\ pc = "draw"
    /\ attempts < MaxAttempts
    /\ \E i \in Drawable(available) :
        /\ ~Fits(format_tweet(available[i]))
        /\ verse' = available[i]
        /\ tweet' = format_tweet(available[i])
        /\ drawn' = drawn \cup {i}
    /\ attempts' = attempts + 1
    /\ UNCHANGED <<world, runs, pc, verses, available, outcome, snapshots>>

\* random.choices on an empty list raises IndexError
DrawFromEmpty ==
    /\ pc = "draw"
    /\ attempts < MaxAttempts
    /\ available = <<>>
    /\ attempts' = attempts + 1
    /\ Raise("select", "IndexError")
    /\ UNCHANGED <<world, runs, verses, available, drawn, verse, tweet, snapshots>>

\* the loop is exhausted: raise Exception("Could not find a verse ...")
NoFittingVerse ==
    /\ pc = "draw"
    /\ attempts = MaxAttempts
    /\ Raise("select", "Exception")
    /\ UNCHANGED <<world, runs, locals, snapshots>>

\* main: image_path = create_verse_image(...): img.save writes verse_image.png
CreateVerseImage ==
    /\ pc = "image"
    /\ image_exists' = TRUE
    /\ pc' = "post"
    /\ UNCHANGED <<now, os_name, fs, csv_file, runs, locals, outcome, snapshots>>

\* create_verse_image raises (drawing or img.save fails)
CreateVerseImageFails ==
    /\ pc = "image"
    /\ Raise("image", "OSError")
    /\ UNCHANGED <<world, runs, locals, snapshots>>

\* main: response = post_to_twitter(tweet_text, image_path) returns
PostToTwitter ==
    /\ pc = "post"
    /\ published' = TRUE
    /\ pc' = "print_id"
    /\ UNCHANGED <<world, runs, locals, err, failed_step, reported, recorded, snapshots>>

\* the verse is marked as posted before the publish call, which then raises
PostToTwitterFailsAfterSave ==
    /\ pc = "post"
    /\ fs' = save_posted_verse(fs, verse.reference, now)
    /\ Raise("post", "TweepyException")
    /\ UNCHANGED <<now, os_name, csv_file, image_exists, runs, locals, snapshots>>

\* post_to_twitter raises (network, authentication, rate limit): nothing posted
PostToTwitterFails ==
    /\ pc = "post"
    /\ Raise("post", "TweepyException")
    /\ UNCHANGED <<world, runs, locals, snapshots>>

\* main: print(f"Success! Tweet ID: {response.data['id']}")
PrintTweetId ==
    /\ pc = "print_id"
    /\ pc' = "cleanup"
    /\ UNCHANGED <<world, runs, locals, outcome, snapshots>>

\* response.data has no 'id' (or is None): the subscript raises
PrintTweetIdFails ==
    /\ pc = "print_id"
    /\ Raise("print_id", "TypeError")
    /\ UNCHANGED <<world, runs, locals, snapshots>>

\* main: if os.path.exists(image_path): os.remove(image_path)
CleanUpImage ==
    /\ pc = "cleanup"
    /\ image_exists' = FALSE
    /\ pc' = "save"
    /\ UNCHANGED <<now, os_name, fs, csv_file, runs, locals, outcome, snapshots>>

\* os.remove raises (the file is locked or the directory is read-only)
CleanUpImageFails ==
    /\ pc = "cleanup"
    /\ image_exists
    /\ Raise("cleanup", "PermissionError")
    /\ UNCHANGED <<world, runs, locals, snapshots>>

\* main: save_posted_verse(verse['reference']), then main returns
SavePostedVerse ==
    /\ pc = "save"
    /\ fs' = save_posted_verse(fs, verse.reference, now)
    /\ recorded' = TRUE
    /\ pc' = "returned"
    /\ UNCHANGED <<now, os_name, csv_file, image_exists, runs, locals, err,
                   failed_step, reported, published, snapshots>>

\* open(posted_file, 'a') raises (the ledger is not writable): nothing written
SavePostedVerseFails ==
    /\ pc = "save"
    /\ Raise("save", "PermissionError")
    /\ UNCHANGED <<world, runs, locals, snapshots>>

\* except FileNotFoundError: print("Error: bible_verses.csv not found!")
ExceptFileNotFoundError ==
    /\ pc = "except"
    /\ err = "FileNotFoundError"
    /\ reported' = TRUE
    /\ pc' = "returned"
    /\ UNCHANGED <<world, runs, locals, err, failed_step, published, recorded, snapshots>>

\* except Exception without the re-raise
ExceptExceptionSwallows ==
    /\ pc = "except"
    /\ err # "FileNotFoundError"
    /\ reported' = TRUE
    /\ pc' = "returned"
    /\ UNCHANGED <<world, runs, locals, err, failed_step, published, recorded, snapshots>>

\* except Exception as e: print(f"Error: {e}"); raise
ExceptException ==
    /\ pc = "except"
    /\ err # "FileNotFoundError"
    /\ reported' = TRUE
    /\ pc' = "raised"
    /\ UNCHANGED <<world, runs, locals, err, failed_step, published, recorded, snapshots>>

Next ==
    \/ Tick
    \/ StartRun
    \/ ResetIfNewYear
    \/ LoadVerses
    \/ SelectBegin
    \/ DrawFits
    \/ DrawTooLong
    \/ DrawFromEmpty
    \/ NoFittingVerse
    \/ SelectReturn
    \/ CreateVerseImage
    \/ CreateVerseImageFails
    \/ PostToTwitter
    \/ PostToTwitterFails
    \/ PrintTweetId
    \/ PrintTweetIdFails
    \/ CleanUpImage
    \/ CleanUpImageFails
    \/ SavePostedVerse
    \/ SavePostedVerseFails
    \/ ExceptFileNotFoundError
    \/ ExceptException

Spec == Init /\ [][Next]_vars

\* ------------------------------------------------------------------ claims
\* vocabulary of the claims: a Post Record is "reference|YYYY-MM-DD"
RecordReference(line) == Field0(line, "|")
RecordedRefs(files) == { RecordReference(l) : l \in load_posted_verses(files) }
RecordedInYear(files, d) ==
    { RecordReference(l) :
        l \in { m \in load_posted_verses(files) :
                  Contains(m, "|") /\ LastYear(m) = StrfYear(d) } }
RunEnded == pc \in {"returned", "raised"}
InRun == pc \notin {"idle", "reset"}
SelectRaised == pc = "except" /\ failed_step = "select"
TooLong(v) == Len(v.text) + 3 + Len(v.reference) > TweetLimit
StoreVerses == { verses[i] : i \in 1..Len(verses) }
\* the ledger's first record carries a year other than the clock's
RolloverDue(files, d) ==
    /\ Exists(files, PostedFile)
    /\ Contains(Strip(ReadLine(files[PostedFile])), "|")
    /\ LastYear(Strip(ReadLine(files[PostedFile]))) # Digits(d.year, 4)
FirstRecordYear(files) == LastYear(Strip(ReadLine(files[PostedFile])))
\* the ledger is absent, empty, or its first record is of the clock's year
NothingToRoll(files, d) ==
    \/ ~Exists(files, PostedFile)
    \/ files[PostedFile] = <<>>
    \/ /\ Contains(Strip(ReadLine(files[PostedFile])), "|")
       /\ FirstRecordYear(files) = Digits(d.year, 4)

\* C1: right after save_posted_verse(r) has returned, r is in
\* load_posted_verses(), the lookup select_valid_verse filters with.
C1_PostedAfterRecord ==
    (pc = "returned" /\ recorded) => verse.reference \in load_posted_verses(fs)

\* C2: while the store still holds a verse not recorded this year, the verse
\* select_valid_verse returns is not one recorded in the ledger this year.
C2_NoRepeatWithinYear ==
    (pc = "selected" /\ \E v \in StoreVerses : v.reference \notin RecordedInYear(fs, now))
        => verse.reference \notin RecordedInYear(fs, now)

\* C3: after the rollover check the ledger files change only by the append
\* that follows a successful publish; a run that ends without having
\* published leaves them as the rollover check left them.
C3_LedgerOnlyAfterPublish ==
    InRun =>
        /\ (fs # post_reset => published /\ recorded /\ pc = "returned")
        /\ (RunEnded /\ ~published => fs = post_reset)
C3_Witness ==
    /\ pc = "raised" /\ failed_step = "post"
    /\ Exists(fs, PostedFile) /\ fs[PostedFile] # <<>>

C5_CollisionKeepsBackupAndContinues ==
    (/\ InRun
     /\ RolloverDue(pre_reset.fs, pre_reset.now)
     /\ Exists(pre_reset.fs, BackupFile(FirstRecordYear(pre_reset.fs))))
        => /\ post_reset[BackupFile(FirstRecordYear(pre_reset.fs))]
                = pre_reset.fs[BackupFile(FirstRecordYear(pre_reset.fs))]
           /\ failed_step # "reset"

\* C6 as stated: with a non-empty store and an empty ledger select_valid_verse
\* returns (never raises), and what it returns is a store verse with the text
\* "<text> - <reference>" of at most 280 characters.
C6_SelectAlwaysReturns ==
    ((pc = "selected" \/ SelectRaised) /\ verses # <<>> /\ load_posted_verses(fs) = {})
        => /\ pc = "selected"
           /\ verse \in StoreVerses
           /\ tweet = verse.text \o <<" ", "-", " ">> \o verse.reference
           /\ Len(tweet) <= TweetLimit

\* C6 amended: with a non-empty store and an empty ledger select_valid_verse
\* either returns a store verse with the text "<text> - <reference>" of at
\* most 280 characters, or raises the no-fitting-verse error after
\* max_attempts draws that were all too long.
C6_SelectReturnsFittingStoreVerse ==
    ((pc = "selected" \/ SelectRaised) /\ verses # <<>> /\ load_posted_verses(fs) = {})
        => IF pc = "selected"
           THEN /\ verse \in StoreVerses
                /\ tweet = verse.text \o <<" ", "-", " ">> \o verse.reference
                /\ Len(tweet) <= TweetLimit
           ELSE /\ err = "Exception"
                /\ attempts = MaxAttempts
                /\ drawn # {}
                /\ \A i \in drawn : TooLong(available[i])
C6_Witness ==
    /\ pc = "selected" /\ load_posted_verses(fs) = {}
    /\ Len(verses) = 3 /\ Len(tweet) = TweetLimit

C8_AnyFailureReRaised ==
    RunEnded =>
        /\ (err # "none" => pc = "raised" /\ reported)
        /\ (pc = "returned" => published /\ recorded)

\* C8 amended: a failure other than FileNotFoundError is reported and
\* re-raised; a FileNotFoundError (the verse store is missing) is reported and
\* main returns normally; main returns normally only after publishing and
\* recording a verse or after a FileNotFoundError.
C8_FailureReRaisedUnlessFileNotFound ==
    RunEnded =>
        /\ (err \notin {"none", "FileNotFoundError"} => pc = "raised" /\ reported)
        /\ (err = "FileNotFoundError" => pc = "returned" /\ reported /\ ~published)
        /\ (pc = "returned" => (published /\ recorded) \/ err = "FileNotFoundError")
        /\ (pc = "raised" => err # "none")
C8_Witness ==
    /\ pc = "returned" /\ err = "FileNotFoundError" /\ reported
    /\ failed_step = "load"

\* C9: a run whose publish call succeeded ends with the verse recorded: no
\* step between the publish and the ledger write ends the run without it.
C9_PublishedImpliesRecorded ==
    (RunEnded /\ published /\ failed_step # "save")
        => /\ recorded
           /\ verse.reference \in RecordedRefs(fs)

\* C10: the loop of select_valid_verse draws at most max_attempts times; it is
\* still drawing only while every draw so far was too long, returns a text of
\* at most 280 characters, and raises the no-fitting-verse error only after
\* max_attempts draws that were all too long; after max_attempts draws it has
\* stopped drawing or is about to raise.
C10_BoundedRejectionLoop ==
    /\ attempts <= MaxAttempts
    /\ pc \in {"draw", "selected"} =>
         /\ \A i \in drawn : Len(available[i].text) + 3 + Len(available[i].reference) > TweetLimit
         /\ (pc = "draw" /\ attempts > 0 => drawn # {})
    /\ pc = "selected" => Len(tweet) <= TweetLimit /\ attempts >= 1
    /\ (SelectRaised /\ err = "Exception") =>
         /\ attempts = MaxAttempts
         /\ drawn # {}
         /\ \A i \in drawn : TooLong(available[i])
         /\ Len(tweet) > TweetLimit
C10_Witness ==
    /\ SelectRaised /\ err = "Exception"
    /\ attempts = MaxAttempts
    /\ Len(available) = 3

====
